---- MODULE Spec2Model ----
(***************************************************************************)
(* Model of the runtime_id crate (src/src/lib.rs): a process-wide atomic   *)
(* counter ID, the opaque value type RuntimeID wrapping a usize, and the   *)
(* operations new (one fetch_add), eq, hash and the derived copy.          *)
(*                                                                         *)
(* An identifier is modelled as a record [val, alloc]: val is the wrapped  *)
(* usize (the only field of the struct); alloc is a history field naming   *)
(* the new() invocation that the value derives from (1 for the first       *)
(* fetch_add of the process, 2 for the second, ...).  The code never reads *)
(* alloc: eq and hash use val only.                                        *)
(*                                                                         *)
(* The machine word is scaled down: a usize has WordBytes bytes and a byte *)
(* is one binary digit, so the counter has 2^WordBytes values.             *)
(***************************************************************************)
EXTENDS Integers, Sequences, FiniteSets

\* ---------------------------------------------------------------- bounds
NThreads == 2
WordBytes == 2
MaxWrites == 2

Threads == 1..NThreads
\* number of values of the usize counter (2^w)
Modulus == 2 ^ WordBytes
\* allocations per run: one more than the counter's range, so that the
\* counter wraps and one value is handed out a second time
MaxAllocs == Modulus + 1

VARIABLES ID, endian, pc, seen, returned, copy, eqres, hasher, hashed

vars == <<ID, endian, pc, seen, returned, copy, eqres, hasher, hashed>>

\* ------------------------------------------------------- pure functions

\* struct RuntimeID(usize), with the history field alloc
RuntimeID(v, k) == [val |-> v, alloc |-> k]

\* AtomicUsize::fetch_add(val): the read-modify-write as one indivisible
\* operation; the addition wraps around on overflow
fetch_add_stuck(cur, val) == [old |-> cur, new |-> cur]
fetch_add_post(cur, val) == [old |-> (cur + val) % Modulus, new |-> (cur + val) % Modulus]
fetch_add_sub(cur, val) == [old |-> cur, new |-> (cur - val) % Modulus]
fetch_add_swap(cur, val) == [old |-> cur, new |-> val]
fetch_add_sat(cur, val) ==
    [old |-> cur, new |-> IF cur + val >= Modulus THEN Modulus - 1 ELSE cur + val]
fetch_add(cur, val) == [old |-> cur, new |-> (cur + val) % Modulus]

\* PartialEq::eq
eq_ne(self, other) == self.val # other.val
eq(self, other) == self.val = other.val

\* derive(Clone, Copy): a bitwise copy of the struct
clone(self) == RuntimeID(self.val, self.alloc)

\* usize::to_ne_bytes: the WordBytes digits of v, least significant first on
\* a little-endian build, most significant first on a big-endian one
to_ne_bytes_low(v) == [i \in 1..WordBytes |-> IF i = 1 THEN v % 2 ELSE 0]
to_ne_bytes(v) ==
    [i \in 1..WordBytes |->
        IF endian = "little"
        THEN (v \div (2 ^ (i - 1))) % 2
        ELSE (v \div (2 ^ (WordBytes - i))) % 2]

\* Hash::hash: state.write(&self.0.to_ne_bytes()); the accumulator is the
\* sequence of bytes written to it so far
hash_counter(self, state) == state \o to_ne_bytes(ID)
hash(self, state) == state \o to_ne_bytes(self.val)

\* every identifier value held anywhere in the process
Identifiers == {returned[i] : i \in DOMAIN returned} \cup {copy[i] : i \in DOMAIN copy}

\* the bytes the i-th hash call wrote into the current accumulator
Contribution(i) == SubSeq(hasher, (i - 1) * WordBytes + 1, i * WordBytes)

\* ------------------------------------------------------------- machine

InitFromOne ==
    /\ ID = 1
    /\ endian \in {"little", "big"}
    /\ pc = [t \in Threads |-> "idle"]
    /\ seen = [t \in Threads |-> 0]
    /\ returned = <<>>
    /\ copy = <<>>
    /\ eqres = <<>>
    /\ hasher = <<>>
    /\ hashed = <<>>

Init ==
    /\ ID = 0
    /\ endian \in {"little", "big"}
    /\ pc = [t \in Threads |-> "idle"]
    /\ seen = [t \in Threads |-> 0]
    /\ returned = <<>>
    /\ copy = <<>>
    /\ eqres = <<>>
    /\ hasher = <<>>
    /\ hashed = <<>>

\* thread t calls RuntimeID::new()
Invoke(t) ==
    /\ pc[t] = "idle"
    /\ Len(returned) + Cardinality({u \in Threads : pc[u] = "new"}) < MaxAllocs
    /\ pc' = [pc EXCEPT ![t] = "new"]
    /\ UNCHANGED <<ID, endian, seen, returned, copy, eqres, hasher, hashed>>

\* the same call, observed: the history variable seen[t] records how many
\* new() calls had returned when thread t made this one (it is cleared when
\* the call returns, and no operation of the code reads it)
InvokeObserved(t) ==
    /\ pc[t] = "idle"
    /\ Len(returned) + Cardinality({u \in Threads : pc[u] = "new"}) < MaxAllocs
    /\ pc' = [pc EXCEPT ![t] = "new"]
    /\ seen' = [seen EXCEPT ![t] = Len(returned)]
    /\ UNCHANGED <<ID, endian, returned, copy, eqres, hasher, hashed>>

\* the body of new(): one fetch_add, whose result is wrapped and returned
FetchAddLocked(t) ==
    /\ pc[t] = "new"
    /\ \A u \in Threads \ {t} : pc[u] # "new"
    /\ LET r == fetch_add(ID, 1) IN
        /\ ID' = r.new
        /\ returned' = Append(returned, RuntimeID(r.old, Len(returned) + 1))
    /\ pc' = [pc EXCEPT ![t] = "idle"]
    /\ seen' = [seen EXCEPT ![t] = 0]
    /\ UNCHANGED <<endian, copy, eqres, hasher, hashed>>

FetchAddAlias(t) ==
    /\ pc[t] = "new"
    /\ LET r == fetch_add(ID, 1) IN
        /\ ID' = r.new
        /\ returned' = Append([i \in DOMAIN returned |-> RuntimeID(r.old, returned[i].alloc)],
                              RuntimeID(r.old, Len(returned) + 1))
    /\ pc' = [pc EXCEPT ![t] = "idle"]
    /\ seen' = [seen EXCEPT ![t] = 0]
    /\ UNCHANGED <<endian, copy, eqres, hasher, hashed>>

FetchAdd(t) ==
    /\ pc[t] = "new"
    /\ LET r == fetch_add(ID, 1) IN
        /\ ID' = r.new
        /\ returned' = Append(returned, RuntimeID(r.old, Len(returned) + 1))
    /\ pc' = [pc EXCEPT ![t] = "idle"]
    /\ seen' = [seen EXCEPT ![t] = 0]
    /\ UNCHANGED <<endian, copy, eqres, hasher, hashed>>

\* let id_0_copy = id_0
Copy(x) ==
    /\ copy' = <<clone(x)>>
    /\ UNCHANGED <<ID, endian, pc, seen, returned, eqres, hasher, hashed>>

\* a == b, for any two identifiers a and b held in the process; the step
\* leaves the result of the comparison in eqres
Eq ==
    /\ \E r \in {eq(a, b) : a \in Identifiers, b \in Identifiers} : eqres' = <<r>>
    /\ UNCHANGED <<ID, endian, pc, seen, returned, copy, hasher, hashed>>

\* a fresh accumulator
HasherDefault ==
    /\ hashed # <<>>
    /\ hasher' = <<>>
    /\ hashed' = <<>>
    /\ UNCHANGED <<ID, endian, pc, seen, returned, copy, eqres>>

\* x.hash(&mut hasher)
Hash(x) ==
    /\ Len(hashed) < MaxWrites
    /\ hasher' = hash(x, hasher)
    /\ hashed' = Append(hashed, x)
    /\ UNCHANGED <<ID, endian, pc, seen, returned, copy, eqres>>

Next ==
    \/ \E t \in Threads : Invoke(t)
    \/ \E t \in Threads : FetchAdd(t)
    \/ \E x \in Identifiers : Copy(x)
    \/ Eq
    \/ HasherDefault
    \/ \E x \in Identifiers : Hash(x)

Spec == Init /\ [][Next]_vars

\* the thread whose progress is followed when no other thread is scheduled
Solo == CHOOSE t \in Threads : TRUE

\* a running thread executes its fetch_add; nothing is assumed of the others
SoloSpec == Init /\ [][Next]_vars /\ WF_vars(FetchAdd(Solo))

\* the allocator alone, with every call observed: eq, hash and copy steps
\* touch none of ID, pc, seen and returned, so they are left out here
NextAlloc ==
    \/ \E t \in Threads : InvokeObserved(t)
    \/ \E t \in Threads : FetchAdd(t)

AllocSpec == Init /\ [][NextAlloc]_vars

\* ---------------------------------------------------------------- claims

\* the wrapped values of the identifiers returned so far
ReturnedVals == {returned[i].val : i \in DOMAIN returned}

\* C1: as long as no more than 2^w allocations were made, any two distinct
\* new() invocations, from any threads in any interleaving, returned
\* identifiers that compare unequal, and the set of returned identifiers has
\* as many elements as there were allocations.
C1_Uniqueness ==
    Len(returned) <= Modulus =>
        /\ \A i, j \in DOMAIN returned : i # j => ~eq(returned[i], returned[j])
        /\ Cardinality(ReturnedVals) = Len(returned)

C1_Witness ==
    /\ Len(returned) = Modulus
    /\ \E t \in Threads : pc[t] = "new"

\* C2 as stated: two identifiers held anywhere compare equal if and only if
\* they derive from the same new() invocation, however many allocations are
\* made.
C2_IdentityUnbounded ==
    \A a, b \in Identifiers : eq(a, b) <=> a.alloc = b.alloc

\* C2 amended: every identifier equals itself, a copy equals the identifier
\* it was copied from whatever was allocated since, and, as long as no more
\* than 2^w allocations were made, two identifiers compare equal if and only
\* if they derive from the same new() invocation.
C2_Identity ==
    /\ \A a \in Identifiers : eq(a, a)
    /\ \A i \in DOMAIN copy :
        /\ copy[i].alloc \in DOMAIN returned
        /\ eq(copy[i], returned[copy[i].alloc])
    /\ Len(returned) <= Modulus =>
        \A a, b \in Identifiers : eq(a, b) <=> a.alloc = b.alloc

C2_Witness ==
    /\ Len(returned) = Modulus
    /\ \E i \in DOMAIN copy : copy[i].alloc = 1
    /\ eqres = <<TRUE>>

\* C3: the bytes a hash call writes depend on the wrapped value only: two
\* hash calls on identifiers that compare equal wrote the same bytes into the
\* accumulator, whatever was allocated or written in between.
C3_HashConsistency ==
    \A i, j \in DOMAIN hashed :
        eq(hashed[i], hashed[j]) => Contribution(i) = Contribution(j)

C3_Witness ==
    /\ Len(hashed) = 2
    /\ eq(hashed[1], hashed[2])
    /\ Len(returned) > hashed[1].alloc

C5_NonBlocking ==
    /\ [](\A t \in Threads : pc[t] = "new" => ENABLED FetchAdd(t))
    /\ [][\A t \in Threads : (pc[t] = "new" /\ pc'[t] # "new") =>
            (pc'[t] = "idle" /\ Len(returned') = Len(returned) + 1)]_vars
    /\ (pc[Solo] = "new" ~> pc[Solo] = "idle")

C5_Witness == \A t \in Threads : pc[t] = "new"

\* C7 as stated: no step decreases the counter.
C7_MonotonicUnbounded == [][ID' >= ID]_vars

\* C7 amended: no step decreases the counter, except the allocation made when
\* the counter holds its largest value 2^w - 1, which wraps it to 0.
C7_Monotonic == [][ID' >= ID \/ (ID = Modulus - 1 /\ ID' = 0)]_vars

C7_Witness == ID = Modulus - 1

\* a step in which thread t completes its new() call
Completes(t) == pc[t] = "new" /\ pc'[t] = "idle"

\* C8 as stated: a completing new() returns the value it read, leaves the
\* counter exactly one greater, and no earlier invocation read that value.
C8_AllocateStepUnbounded ==
    [][\A t \in Threads : Completes(t) =>
        /\ returned' = Append(returned, RuntimeID(ID, Len(returned) + 1))
        /\ ID' = ID + 1
        /\ ID \notin ReturnedVals]_vars

\* C8 amended: a completing new() returns the value it read and leaves the
\* counter one greater modulo 2^w (0 after 2^w - 1); none of the 2^w - 1
\* invocations before it read that value, and no other call completes in the
\* same step.
C8_AllocateStep ==
    [][\A t \in Threads : Completes(t) =>
        /\ returned' = Append(returned, RuntimeID(ID, Len(returned) + 1))
        /\ ID' = (ID + 1) % Modulus
        /\ \A i \in DOMAIN returned :
            i > Len(returned) - (Modulus - 1) => returned[i].val # ID
        /\ \A u \in Threads \ {t} : pc'[u] = pc[u]]_vars

C8_Witness ==
    /\ Len(returned) >= 2
    /\ \E t \in Threads : pc[t] = "new"

\* C9: the counter starts at 0 and, while fewer than 2^w allocations have
\* completed, it equals their number N and the returned identifiers wrap
\* exactly the values 0 .. N-1.
C9_CountsFromZero ==
    Len(returned) < Modulus =>
        /\ ID = Len(returned)
        /\ ReturnedVals = 0 .. (Len(returned) - 1)

C9_Witness ==
    /\ Len(returned) = Modulus - 1
    /\ \E t \in Threads : pc[t] = "new"

\* C10: the counter changes only in the fetch_add step of a new() call; that
\* step changes nothing else but the caller's result, and no identifier
\* returned earlier; eq and hash change neither the counter nor any
\* identifier.
C10_Frame ==
    [][/\ ID' # ID => \E t \in Threads : Completes(t)
       /\ (\E t \in Threads : Completes(t)) =>
            UNCHANGED <<endian, copy, eqres, hasher, hashed>>
       /\ \A i \in DOMAIN returned :
            i \in DOMAIN returned' /\ returned'[i] = returned[i]
       /\ (eqres' # eqres \/ hasher' # hasher) =>
            UNCHANGED <<ID, returned, copy, pc>>]_vars

C10_Witness ==
    /\ Len(returned) >= 2
    /\ eqres # <<>>
    /\ hashed # <<>>

\* C11: new() has no error outcome: a call in progress can take its
\* fetch_add step also when the counter holds 2^w - 1; that allocation (the
\* 2^w-th) returns an identifier wrapping 2^w - 1 and leaves the counter at
\* 0, and the (2^w + 1)-th allocation returns an identifier that compares
\* equal to the first one.
C11_Exhaustion ==
    /\ \A t \in Threads : pc[t] = "new" => ENABLED FetchAdd(t)
    /\ Len(returned) >= Modulus => returned[Modulus].val = Modulus - 1
    /\ Len(returned) = Modulus => ID = 0
    /\ Len(returned) >= Modulus + 1 =>
        /\ returned[Modulus + 1].val = 0
        /\ eq(returned[Modulus + 1], returned[1])
        /\ returned[Modulus + 1].alloc # returned[1].alloc

C11_Witness ==
    /\ Len(returned) = Modulus + 1
    /\ eqres = <<TRUE>>

\* C12: new() behaves as a sequential counter whose operation takes effect
\* at its fetch_add, between call and return: while fewer than 2^w
\* allocations have been made, the call that takes effect as the k-th returns
\* k - 1, which is strictly greater than the value of every identifier whose
\* call had returned before this call was made (so also of the caller's own
\* earlier identifiers).
C12_LinearizableOrder ==
    [][\A t \in Threads : (Completes(t) /\ Len(returned) < Modulus) =>
        /\ seen[t] <= Len(returned)
        /\ returned'[Len(returned')].val = Len(returned)
        /\ \A i \in 1..seen[t] : returned[i].val < returned'[Len(returned')].val]_vars

\* a call in progress that was made after some call had returned and that
\* other calls have overtaken since, with a further allocation in range
C12_Witness ==
    \E t \in Threads :
        /\ pc[t] = "new"
        /\ seen[t] >= 1
        /\ Len(returned) > seen[t]
        /\ Len(returned) < Modulus

====
